---- MODULE Spec2Model ----
(***************************************************************************)
(* A model of trakt_to_serializd_migrator.py: MigrationManager.run, the    *)
(* two authentication handshakes it starts, and migrate_watched_shows, the *)
(* walk over shows -> seasons -> episodes that replays the Trakt history   *)
(* as Serializd calls.                                                     *)
(*                                                                         *)
(* Text is a sequence of one-character strings, so that str.strip and      *)
(* str.lower are computed.  The answers of the two HTTP services and the   *)
(* records of the source catalog are inputs, drawn when the code reads     *)
(* them.  A Trakt token response with status 200 carries both tokens, as   *)
(* the device-flow API documents.  The seasons of a show carry distinct    *)
(* numbers (a season's number is its position in the show's list) and the  *)
(* destination gives each season of a show its own seasonId.  A user       *)
(* interrupt (KeyboardInterrupt) is not modelled.  elapsed, expires_in and *)
(* interval are locals of TraktAuthenticator.authenticate: they are        *)
(* cleared when it returns.                                                *)
(***************************************************************************)
EXTENDS Integers, Sequences, FiniteSets, TLC

\* ------------------------------------------------------------- bounds
MaxShows == 2
MaxSeasons == 2
MaxEp == 2
MaxExpires == 5
MaxInterval == 2

\* ------------------------------------------------------------- text
IsSpace(c) == c \in {" ", "\t"}

RECURSIVE LStrip(_)
LStrip(s) == IF s # <<>> /\ IsSpace(Head(s)) THEN LStrip(Tail(s)) ELSE s

RECURSIVE RStrip(_)
RStrip(s) ==
    IF s # <<>> /\ IsSpace(s[Len(s)]) THEN RStrip(SubSeq(s, 1, Len(s) - 1)) ELSE s

Strip(s) == RStrip(LStrip(s))

LowerChar(c) ==
    CASE c = "Y" -> "y"
      [] c = "N" -> "n"
      [] c = "E" -> "e"
      [] c = "S" -> "s"
      [] OTHER -> c

Lower(s) == [i \in DOMAIN s |-> LowerChar(s[i])]

\* what the user may type at a credential prompt
CredInputs == { <<>>, <<" ">>, <<"k">>, <<" ", "k", " ">> }

\* what the user may type at the proceed prompt
Answers ==
    { <<>>, <<"y">>, <<" ", "Y", " ">>, <<"n">>, <<"y", "e", "s">>,
      <<"y", " ", "y">> }

\* ------------------------------------------------------------- state
VARIABLES
    pc,                     \* position in run()
    failure,                \* why run() ended in its except branch
    creds,                  \* the four stripped credentials, in entry order
    access_token,           \* TraktAuthenticator.access_token
    refresh_token,          \* TraktAuthenticator.refresh_token
    serializd_token,        \* SerializdAuthenticator.access_token
    login_attempted,        \* the Serializd login request was sent
    elapsed,                \* int(time.time()) since the poll loop's start
    expires_in,             \* device_data['expires_in']
    interval,               \* device_data['interval']
    last_status,            \* status of the latest token response
    answer,                 \* raw text typed at the proceed prompt
    fetched,                \* get_watched_shows was called
    nShows,                 \* len(watched_shows)
    idx,                    \* shows whose loop iteration has begun
    cur,                    \* the show record of the current iteration
    sidx,                   \* seasons of cur whose iteration has begun
    complete_seasons,       \* the local list of the same name
    seen,                   \* this show's seasons looked up so far
    calls,                  \* this show's destination calls and sleeps
    carry,                  \* kind of the last event before this show
    successful_migrations,
    failed_migrations,
    titleBound,             \* the local show_title has been assigned
    lastShow,               \* how the latest show iteration ended
    exceptions,             \* exceptions raised inside migrate_watched_shows
    reported                \* the final report was logged

vars ==
    << pc, failure, creds, access_token, refresh_token, serializd_token,
       login_attempted, elapsed, expires_in, interval, last_status,
       answer, fetched, nShows, idx, cur, sidx, complete_seasons, seen, calls,
       carry, successful_migrations, failed_migrations, titleBound, lastShow,
       exceptions, reported >>

authVars ==
    << creds, access_token, refresh_token, serializd_token, login_attempted,
       elapsed, expires_in, interval, last_status >>

migrationVars ==
    << fetched, nShows, idx, cur, sidx, complete_seasons, seen, calls, carry,
       successful_migrations, failed_migrations, titleBound, lastShow,
       exceptions, reported >>

NoShow == [key |-> "none", tmdb |-> 0, nSeasons |-> 0]

Init ==
    /\ pc = "trakt_credentials"
    /\ failure = "none"
    /\ creds = <<>>
    /\ access_token = "unset"
    /\ refresh_token = "unset"
    /\ serializd_token = "unset"
    /\ login_attempted = FALSE
    /\ elapsed = 0
    /\ expires_in = 0
    /\ interval = 0
    /\ last_status = 0
    /\ answer = <<>>
    /\ fetched = FALSE
    /\ nShows = 0
    /\ idx = 0
    /\ cur = NoShow
    /\ sidx = 0
    /\ complete_seasons = <<>>
    /\ seen = <<>>
    /\ calls = <<>>
    /\ carry = "none"
    /\ successful_migrations = 0
    /\ failed_migrations = 0
    /\ titleBound = FALSE
    /\ lastShow = "none"
    /\ exceptions = 0
    /\ reported = FALSE

\* run()'s except branch: the message is printed and run() returns
Fail(why) == pc' = "failed" /\ failure' = why

\* a slip: both credentials must be empty for the check to fire
CredentialsBothMissing(a, b) == a = <<>> /\ b = <<>>

\* ------------------------------------------------- setup_authentication
CredentialsMissing(a, b) == a = <<>> \/ b = <<>>

EnterTraktCredentials ==
    /\ pc = "trakt_credentials"
    /\ \E id \in CredInputs, secret \in CredInputs :
        /\ creds' = << Strip(id), Strip(secret) >>
        /\ IF CredentialsMissing(Strip(id), Strip(secret))
              THEN Fail("credentials")
              ELSE pc' = "trakt_device" /\ failure' = failure
    /\ UNCHANGED << access_token, refresh_token, serializd_token,
                    login_attempted, elapsed, expires_in, interval,
                    last_status, answer >>
    /\ UNCHANGED migrationVars

TraktDeviceCode ==
    /\ pc = "trakt_device"
    /\ \E status \in {200, 500} :
        IF status # 200
           THEN /\ Fail("trakt_auth")
                /\ UNCHANGED << expires_in, interval >>
           ELSE /\ \E e \in 1..MaxExpires, i \in 0..MaxInterval :
                      expires_in' = e /\ interval' = i
                /\ pc' = "trakt_poll"
                /\ failure' = failure
    /\ UNCHANGED << creds, access_token, refresh_token, serializd_token,
                    login_attempted, elapsed, last_status, answer >>
    /\ UNCHANGED migrationVars

\* a slip: a pending authorization (400) is taken for an error
PollFatalOnPending(status) == status # 200

PollFatal(status) == status # 200 /\ status # 400

\* one iteration of the while loop: sleep, request, inspect the status
TraktPoll ==
    /\ pc = "trakt_poll"
    /\ elapsed < expires_in
    /\ \E late \in 0..1, status \in {200, 400, 500} :
        /\ last_status' = status
        /\ IF status = 200
              THEN /\ access_token' = "token"
                   /\ refresh_token' = "token"
                   /\ pc' = "serializd_credentials"
                   /\ failure' = failure
                   /\ elapsed' = 0
                   /\ expires_in' = 0
                   /\ interval' = 0
              ELSE /\ elapsed' = elapsed + interval + late
                   /\ UNCHANGED << access_token, refresh_token, expires_in,
                                   interval >>
                   /\ IF PollFatal(status)
                         THEN Fail("trakt_auth")
                         ELSE pc' = "trakt_poll" /\ failure' = failure
    /\ UNCHANGED << creds, serializd_token, login_attempted, answer >>
    /\ UNCHANGED migrationVars

TraktPollTimeout ==
    /\ pc = "trakt_poll"
    /\ ~(elapsed < expires_in)
    /\ Fail("trakt_auth")
    /\ UNCHANGED authVars
    /\ UNCHANGED answer
    /\ UNCHANGED migrationVars

EnterSerializdCredentials ==
    /\ pc = "serializd_credentials"
    /\ \E email \in CredInputs, password \in CredInputs :
        /\ creds' = creds \o << Strip(email), Strip(password) >>
        /\ IF CredentialsMissing(Strip(email), Strip(password))
              THEN Fail("credentials")
              ELSE pc' = "serializd_login" /\ failure' = failure
    /\ UNCHANGED << access_token, refresh_token, serializd_token,
                    login_attempted, elapsed, expires_in, interval,
                    last_status, answer >>
    /\ UNCHANGED migrationVars

SerializdLogin ==
    /\ pc = "serializd_login"
    /\ login_attempted' = TRUE
    /\ \E status \in {200, 401}, token \in {"", "token"} :
        IF status # 200
           THEN Fail("serializd_auth") /\ UNCHANGED serializd_token
           ELSE /\ serializd_token' = IF token = "" THEN "unset" ELSE token
                /\ IF token = ""
                      THEN Fail("serializd_auth")
                      ELSE pc' = "confirm" /\ failure' = failure
    /\ UNCHANGED << creds, access_token, refresh_token, elapsed, expires_in,
                    interval, last_status, answer >>
    /\ UNCHANGED migrationVars

\* a slip: any answer that starts with y is taken for consent
ProceedOnPrefix(confirm) == confirm # <<>> /\ Head(confirm) = "y"

\* ------------------------------------------------------------- run
Proceed(confirm) == confirm = <<"y">>

Confirm ==
    /\ pc = "confirm"
    /\ \E typed \in Answers :
        /\ answer' = typed
        /\ pc' = IF Proceed(Lower(Strip(typed))) THEN "user_info" ELSE "done"
    /\ UNCHANGED failure
    /\ UNCHANGED authVars
    /\ UNCHANGED migrationVars

\* ------------------------------------------------- source and destination
\* the numbers a..b in order: a list of unique positive episode numbers
FromTo(a, b) == [i \in 1..(b - a + 1) |-> a + i - 1]

\* the episodes a user may have watched of a season: its first k episodes
WatchedLists == { FromTo(1, k) : k \in 0..MaxEp }

\* the episodes the destination may list for a season: none, or those from
\* some number on (the two services need not list the same episodes)
ListedEpisodes == { FromTo(j, MaxEp) : j \in 1..(MaxEp + 1) }

Range(s) == { s[i] : i \in DOMAIN s }

\* a show record of the source, as far as the code reads it: key tells which
\* key the record lacks, tmdb is ids.get('tmdb') (0: absent), nSeasons is
\* len(show_data.get('seasons', []))
ShowRecords(n) ==
    { [key |-> k, tmdb |-> 0, nSeasons |-> 0] :
          k \in {"no_show", "no_title", "no_ids", "ok"} }
    \cup { [key |-> "ok", tmdb |-> n, nSeasons |-> m] : m \in 0..MaxSeasons }

\* a season record of the source: key tells whether 'number' is missing,
\* watched is [ep['number'] for ep in season_data.get('episodes', [])]
SeasonRecords ==
    { [key |-> "no_number", watched |-> <<>>] }
    \cup { [key |-> "ok", watched |-> w] : w \in WatchedLists }

\* what get_season_info returns: None, or a season with its episode list
SeasonInfos ==
    { [found |-> FALSE, episodes |-> <<>>] }
    \cup { [found |-> TRUE, episodes |-> e] : e \in ListedEpisodes }

\* the destination's seasonId of season number n of show tmdb
SeasonId(tmdb, n) == << tmdb, n >>

Call(op, sid, sids, eps, ok) ==
    [op |-> op, sid |-> sid, sids |-> sids, eps |-> eps, ok |-> ok]

Sleep == Call("sleep", <<>>, <<>>, <<>>, TRUE)

Kind(ev) == IF ev.op = "sleep" THEN "sleep" ELSE "call"

\* ------------------------------------------------- migrate_watched_shows
GetUserInfo ==
    /\ pc = "user_info"
    /\ \E ok \in BOOLEAN :
        IF ok THEN pc' = "watched" /\ UNCHANGED << failure, exceptions >>
              ELSE Fail("user_info") /\ exceptions' = exceptions + 1
    /\ UNCHANGED authVars
    /\ UNCHANGED answer
    /\ UNCHANGED << fetched, nShows, idx, cur, sidx, complete_seasons, seen,
                    calls, carry, successful_migrations, failed_migrations,
                    titleBound, lastShow, reported >>

GetWatchedShows ==
    /\ pc = "watched"
    /\ fetched' = TRUE
    /\ \E ok \in BOOLEAN :
        IF ok THEN /\ \E n \in 0..MaxShows : nShows' = n
                   /\ pc' = "loop"
                   /\ UNCHANGED << failure, exceptions >>
              ELSE /\ Fail("watched")
                   /\ exceptions' = exceptions + 1
                   /\ UNCHANGED nShows
    /\ UNCHANGED authVars
    /\ UNCHANGED answer
    /\ UNCHANGED << idx, cur, sidx, complete_seasons, seen, calls, carry,
                    successful_migrations, failed_migrations, titleBound,
                    lastShow, reported >>

\* a slip: the handler logs without reading show_title
HandlerAlwaysSurvives(bound) == TRUE

\* the handler of line 507 formats show_title: it raises when the name was
\* never assigned
HandlerSurvives(bound) == bound

\* a slip: the handler forgets the tally
HandledFailureUncounted(n) == n

HandledFailure(n) == n + 1

SkippedFailure(n) == n + 1

\* an exception inside the per-show try block, caught at line 507; log is the
\* show's log at that point and bound tells whether show_title is assigned
Raise(bound, log) ==
    /\ exceptions' = exceptions + 1
    /\ lastShow' = "error"
    /\ successful_migrations' = successful_migrations
    /\ IF HandlerSurvives(bound)
          THEN /\ failed_migrations' = HandledFailure(failed_migrations)
               /\ calls' = Append(log, Sleep)
               /\ pc' = "loop"
               /\ failure' = failure
          ELSE /\ failed_migrations' = failed_migrations
               /\ calls' = log
               /\ Fail("handler")

\* kind of the last event of the run so far
LastKind == IF calls = <<>> THEN carry ELSE Kind(calls[Len(calls)])

\* lines 435-445: the next show record is read
ShowBegin ==
    /\ pc = "loop"
    /\ idx < nShows
    /\ idx' = idx + 1
    /\ carry' = LastKind
    /\ sidx' = 0
    /\ complete_seasons' = <<>>
    /\ seen' = <<>>
    /\ \E rec \in ShowRecords(idx + 1) :
        /\ cur' = rec
        /\ titleBound' = (titleBound \/ rec.key \in {"no_ids", "ok"})
        /\ IF rec.key # "ok"
              THEN Raise(titleBound', <<>>)
              ELSE /\ calls' = <<>>
                   /\ UNCHANGED << failure, exceptions, successful_migrations >>
                   /\ IF rec.tmdb = 0
                         THEN /\ failed_migrations' =
                                     SkippedFailure(failed_migrations)
                              /\ lastShow' = "no_tmdb"
                              /\ pc' = "loop"
                         ELSE /\ failed_migrations' = failed_migrations
                              /\ lastShow' = "running"
                              /\ pc' = "lookup"
    /\ UNCHANGED authVars
    /\ UNCHANGED << answer, fetched, nShows, reported >>

\* lines 450-457: the show is looked up on the destination
ShowLookup ==
    /\ pc = "lookup"
    /\ \E found \in BOOLEAN :
        /\ calls' = Append(calls,
                       Call("get_show_by_tmdb_id", <<>>, <<>>, <<>>, found))
        /\ IF found
              THEN /\ pc' = "seasons"
                   /\ UNCHANGED << failed_migrations, lastShow >>
              ELSE /\ failed_migrations' = SkippedFailure(failed_migrations)
                   /\ lastShow' = "not_found"
                   /\ pc' = "loop"
    /\ UNCHANGED authVars
    /\ UNCHANGED << failure, answer, fetched, nShows, idx, cur, sidx,
                    complete_seasons, seen, carry, successful_migrations,
                    titleBound, exceptions, reported >>

\* a slip: the guard against an empty episode list is dropped
IsCompleteUnguarded(watched, total) == watched >= total

\* line 480
IsComplete(watched, total) == total > 0 /\ watched >= total

\* lines 460-496: one iteration of the season loop
SeasonStep ==
    /\ pc = "seasons"
    /\ sidx < cur.nSeasons
    /\ sidx' = sidx + 1
    /\ \E s \in SeasonRecords :
        IF s.key # "ok"
           THEN /\ Raise(titleBound, calls)
                /\ UNCHANGED << complete_seasons, seen >>
           ELSE
        IF s.watched = <<>>
           THEN UNCHANGED << pc, failure, complete_seasons, seen, calls,
                             successful_migrations, failed_migrations,
                             lastShow, exceptions >>
           ELSE
        \E info \in SeasonInfos :
          LET sid == SeasonId(cur.tmdb, sidx + 1)
              lookup == Call("get_season_info", sid, <<>>, <<>>, info.found)
          IN
          /\ seen' = Append(seen, [sid |-> sid, watched |-> s.watched,
                                   found |-> info.found,
                                   episodes |-> info.episodes])
          /\ UNCHANGED << pc, failure, successful_migrations,
                          failed_migrations, lastShow, exceptions >>
          /\ IF ~info.found
                THEN /\ calls' = Append(calls, lookup)
                     /\ UNCHANGED complete_seasons
                ELSE
             IF IsComplete(Len(s.watched), Len(info.episodes))
                THEN /\ complete_seasons' = Append(complete_seasons, sid)
                     /\ calls' = calls \o << lookup, Sleep >>
                ELSE /\ UNCHANGED complete_seasons
                     /\ \E ok \in BOOLEAN :
                          calls' = calls \o
                              << lookup,
                                 Call("log_episodes", sid, <<>>, s.watched, ok),
                                 Sleep >>
    /\ UNCHANGED authVars
    /\ UNCHANGED << answer, fetched, nShows, idx, cur, carry, titleBound,
                    reported >>

\* a slip: the call is made whether or not a season is complete
ShouldLogSeasonsAlways(cs) == TRUE

\* line 499
ShouldLogSeasons(cs) == cs # <<>>

\* lines 498-512: the season loop is over
SeasonsDone ==
    /\ pc = "seasons"
    /\ sidx = cur.nSeasons
    /\ IF ShouldLogSeasons(complete_seasons)
          THEN \E ok \in BOOLEAN :
                 calls' = calls \o
                     << Call("log_seasons", <<>>, complete_seasons, <<>>, ok),
                        Sleep >>
          ELSE calls' = Append(calls, Sleep)
    /\ successful_migrations' = successful_migrations + 1
    /\ lastShow' = "ok"
    /\ pc' = "loop"
    /\ UNCHANGED authVars
    /\ UNCHANGED << failure, answer, fetched, nShows, idx, cur, sidx,
                    complete_seasons, seen, carry, failed_migrations,
                    titleBound, exceptions, reported >>

\* lines 514-517
FinalReport ==
    /\ pc = "loop"
    /\ idx = nShows
    /\ reported' = TRUE
    /\ pc' = "done"
    /\ UNCHANGED authVars
    /\ UNCHANGED << failure, answer, fetched, nShows, idx, cur, sidx,
                    complete_seasons, seen, calls, carry,
                    successful_migrations, failed_migrations, titleBound,
                    lastShow, exceptions >>

\* ------------------------------------------------------------- specification
AuthNext ==
    \/ EnterTraktCredentials
    \/ TraktDeviceCode
    \/ TraktPoll
    \/ TraktPollTimeout

Next ==
    \/ AuthNext
    \/ EnterSerializdCredentials
    \/ SerializdLogin
    \/ Confirm
    \/ GetUserInfo
    \/ GetWatchedShows
    \/ ShowBegin
    \/ ShowLookup
    \/ SeasonStep
    \/ SeasonsDone
    \/ FinalReport

Spec == Init /\ [][Next]_vars

\* the device-flow poll loop alone, with a clock that advances: a poll that
\* leaves the loop or finds the clock later is taken again and again
ClockAdvances == TraktPoll /\ (pc' # "trakt_poll" \/ elapsed' > elapsed)

SpecAuth ==
    Init /\ [][AuthNext]_vars /\ WF_vars(AuthNext) /\ WF_vars(ClockAdvances)

\* ------------------------------------------------------------- properties
LogEpisodesFor(sid) ==
    { j \in DOMAIN calls : calls[j].op = "log_episodes" /\ calls[j].sid = sid }

InLogSeasons(sid) ==
    \E j \in DOMAIN calls :
        calls[j].op = "log_seasons" /\ sid \in Range(calls[j].sids)

\* the show's iteration ran to its end: it was counted as successful
ShowFinished == lastShow = "ok"

\* C1 as amended: for every watched season found on the destination, with W
\* watched episodes and T listed episodes: if T >= 1 and W >= T, no
\* log_episodes call is made for it and, once the show's season loop is
\* over, its season id is sent in a log_seasons call; otherwise (W < T, or
\* T = 0) exactly one log_episodes call is made for it, carrying exactly the
\* watched episode numbers, and its id is in no log_seasons call.
C1_Threshold ==
    \A i \in DOMAIN seen :
        LET e == seen[i]
            W == Len(e.watched)
            T == Len(e.episodes)
        IN  e.found =>
              IF T >= 1 /\ W >= T
                 THEN /\ LogEpisodesFor(e.sid) = {}
                      /\ ShowFinished => InLogSeasons(e.sid)
                 ELSE /\ Cardinality(LogEpisodesFor(e.sid)) = 1
                      /\ \A j \in LogEpisodesFor(e.sid) :
                            calls[j].eps = e.watched
                      /\ ~InLogSeasons(e.sid)

\* C1 as stated: the same with the bare threshold W >= T, T = 0 included
C1_Original ==
    \A i \in DOMAIN seen :
        LET e == seen[i]
            W == Len(e.watched)
            T == Len(e.episodes)
        IN  e.found =>
              IF W >= T
                 THEN /\ LogEpisodesFor(e.sid) = {}
                      /\ ShowFinished => InLogSeasons(e.sid)
                 ELSE /\ Cardinality(LogEpisodesFor(e.sid)) = 1
                      /\ \A j \in LogEpisodesFor(e.sid) :
                            calls[j].eps = e.watched
                      /\ ~InLogSeasons(e.sid)

\* a finished show with one season sent whole and one season whose
\* destination record lists no episode
C1_Witness ==
    /\ ShowFinished
    /\ \E i \in DOMAIN seen :
          /\ seen[i].found
          /\ Len(seen[i].episodes) >= 1
          /\ Len(seen[i].watched) >= Len(seen[i].episodes)
          /\ InLogSeasons(seen[i].sid)
    /\ \E i \in DOMAIN seen :
          /\ seen[i].found
          /\ seen[i].episodes = <<>>
          /\ LogEpisodesFor(seen[i].sid) # {}

\* C2 as stated: a show counted as successful had no per-item failure: every
\* season looked up was found and every marking call succeeded.
C2_FailuresTallied ==
    ShowFinished =>
        /\ \A i \in DOMAIN seen : seen[i].found
        /\ \A j \in DOMAIN calls : calls[j].ok

NumCalls == Cardinality({ j \in DOMAIN calls : Kind(calls[j]) = "call" })

\* C3 as stated: once an exception was raised inside migrate_watched_shows,
\* no later show is begun and no further destination call is made.
C3_Original ==
    [][exceptions > 0 => (idx' = idx /\ NumCalls' <= NumCalls)]_vars

\* C3 as amended: an exception raised by get_user_info or get_watched_shows,
\* or raised in a show's processing while no show title has been assigned,
\* aborts the whole run, and nothing happens after the abort; an exception
\* raised in a show's processing once a title is assigned does not abort:
\* that show is counted as failed and the loop goes on.
C3_Abort ==
    [][ /\ pc # "failed"
        /\ exceptions' > exceptions =>
              IF pc \in {"user_info", "watched"} \/ ~titleBound'
                 THEN pc' = "failed"
                 ELSE /\ pc' = "loop"
                      /\ failed_migrations' = failed_migrations + 1
                      /\ successful_migrations' = successful_migrations
      ]_vars

\* a later show was migrated after an exception in an earlier one
C3_Witness == exceptions >= 1 /\ idx >= 2 /\ ShowFinished

\* C4 as stated: no two destination calls follow one another without a
\* sleep in between, within a show and from one show to the next.
C4_Paced ==
    /\ \A j \in DOMAIN calls :
          j > 1 => ~(Kind(calls[j - 1]) = "call" /\ Kind(calls[j]) = "call")
    /\ (calls # <<>> /\ Kind(calls[1]) = "call") => carry # "call"

SetupFailures == {"credentials", "trakt_auth", "serializd_auth"}

\* C5: a setup or authentication failure ends run() before the watched list
\* is fetched and before any destination call; an empty credential is such
\* a failure; Serializd login is attempted only with a Trakt token; and
\* whatever the migration does, all four credentials were given and both
\* logins succeeded.
C5_SetupFatal ==
    /\ failure \in SetupFailures =>
          pc = "failed" /\ ~fetched /\ idx = 0 /\ calls = <<>>
    /\ (\E i \in DOMAIN creds : creds[i] = <<>>) => failure = "credentials"
    /\ login_attempted => (access_token = "token" /\ Len(creds) = 4)
    /\ (fetched \/ idx > 0 \/ calls # <<>>) =>
          /\ Len(creds) = 4
          /\ \A i \in DOMAIN creds : creds[i] # <<>>
          /\ access_token = "token"
          /\ serializd_token = "token"

\* Serializd answered 200 without a token, after Trakt had authenticated
C5_Witness ==
    /\ failure = "serializd_auth"
    /\ access_token = "token"
    /\ serializd_token = "unset"
    /\ login_attempted

\* C6 as stated: every season sent in a log_seasons call has all the
\* episodes the destination lists for it among the watched ones.
C6_AllWatched ==
    \A j \in DOMAIN calls :
        calls[j].op = "log_seasons" =>
            \A i \in DOMAIN seen :
                seen[i].sid \in Range(calls[j].sids) =>
                    Range(seen[i].episodes) \subseteq Range(seen[i].watched)

MetThreshold(e) ==
    /\ e.found
    /\ Len(e.episodes) >= 1
    /\ Len(e.watched) >= Len(e.episodes)

SidsOf(entries) == [i \in DOMAIN entries |-> entries[i].sid]

YesAnswers == { <<"y">>, <<" ", "Y", " ">> }

MigrationStarted ==
    \/ pc \in {"user_info", "watched", "loop", "lookup", "seasons"}
    \/ fetched
    \/ exceptions > 0
    \/ idx > 0
    \/ calls # <<>>
    \/ reported

\* C8: the source is read and the destination is called only after an
\* answer that is 'y' once trimmed and lower-cased; after any other answer
\* run() is over with none of these calls made.
C8_Gated ==
    /\ MigrationStarted => answer \in YesAnswers
    /\ (pc = "done" /\ answer \notin YesAnswers) => (~fetched /\ calls = <<>>)

\* run() returned after the answer 'yes'
C8_Witness ==
    pc = "done" /\ answer = <<"y", "e", "s">> /\ ~fetched /\ ~reported

\* what one step of the poll loop does
PollStep ==
    IF elapsed < expires_in
       THEN /\ last_status' = 200 =>
                  /\ pc' = "serializd_credentials"
                  /\ access_token' = "token"
                  /\ refresh_token' = "token"
            /\ last_status' = 400 =>
                  /\ pc' = "trakt_poll"
                  /\ elapsed' >= elapsed + interval
                  /\ access_token' = "unset"
            /\ last_status' \notin {200, 400} =>
                  pc' = "failed" /\ failure' = "trakt_auth"
       ELSE pc' = "failed" /\ failure' = "trakt_auth"

C10_Tally ==
    /\ pc = "loop" => successful_migrations + failed_migrations = idx
    /\ pc \in {"lookup", "seasons"} =>
          successful_migrations + failed_migrations = idx - 1
    /\ reported =>
          /\ idx = nShows
          /\ successful_migrations + failed_migrations = nShows

\* a report over several shows, some migrated and some failed
C10_Witness ==
    /\ reported
    /\ nShows >= 2
    /\ successful_migrations >= 1
    /\ failed_migrations >= 1

====
